---- MODULE Spec2Model ----
(***************************************************************************)
(* Model of mergeUASTCKTX2ToArray (src/ktx2ArrayMerge.js): the merge of N  *)
(* decoded single-layer UASTC KTX2 containers into one 2D array container. *)
(* The function body is modelled statement group by statement group; the   *)
(* program counter pc names the group that runs next.  Loop indices i,     *)
(* layer and level are 0-based as in the source; TLA+ sequences are        *)
(* 1-based, so containers[layer + 1] is the source's containers[layer].    *)
(* An optional JavaScript value (undefined / null or a value v) is the     *)
(* tuple << >> or << v >>.                                                 *)
(***************************************************************************)
EXTENDS Integers, Sequences, FiniteSets, TLC

VARIABLES containers, pc, i, level, layer, parts, totalUnc, mergedLevels,
          out, warned, written, err

vars == << containers, pc, i, level, layer, parts, totalUnc, mergedLevels,
           out, warned, written, err >>

(***************************************************************************)
(* Bounds of the explored inputs.                                          *)
(***************************************************************************)
MaxInputs == 2
MaxLevels == 2
MaxPad == 3

Widths == {4, 5}
Heights == {4, 8}

(***************************************************************************)
(* Error messages thrown by the source.                                    *)
(***************************************************************************)
VkFormatMsg == "vkFormat must be 0 (Basis Universal/UASTC)."
SchemeMsg == "Only supercompression NONE (0) or ZSTD (2) is supported."
IncompatibleMsg == "All inputs must be UASTC KTX2 with identical size, mip count, and supercompression."
MissingLevelDataMsg == "Missing levelData for layer ${layer}, level ${level}."
TooSmallMsg == "Layer ${layer} level ${level} smaller than expected UASTC size (${bytes.byteLength} < ${exact})."
TypeErrorMsg == "TypeError: Cannot read properties of undefined"

NoError == [msg |-> "", layer |-> -1, level |-> -1, got |-> -1, expected |-> -1]
Error(m) == [NoError EXCEPT !.msg = m]

(***************************************************************************)
(* JavaScript arithmetic used by the source.                               *)
(***************************************************************************)
\* x >> n on an int32 x: the shift count is taken modulo 32, the shift is
\* arithmetic.
SignedShiftRight(x, n) ==
    LET s == n % 32
    IN  IF s >= 31 THEN (IF x < 0 THEN -1 ELSE 0) ELSE x \div (2 ^ s)

MathMax(a, b) == IF a >= b THEN a ELSE b

\* Math.ceil(x / 4) for an integer x
CeilDiv4(x) == (x + 3) \div 4

\* uastcBytesPerImageAtLevel, with the closed-over w and h as parameters
uastcBytesPerImageAtLevel(w, h, lv) ==
    LET wL == MathMax(1, SignedShiftRight(w, lv))
        hL == MathMax(1, SignedShiftRight(h, lv))
        blocksX == CeilDiv4(wL)
        blocksY == CeilDiv4(hL)
    IN  blocksX * blocksY * 16

(***************************************************************************)
(* The reference header and the values read from it.                       *)
(***************************************************************************)
H == containers[1]
w == H.pixelWidth
h == H.pixelHeight
lvls == H.levelCount
scheme == H.supercompressionScheme
layerCount == Len(containers)

\* SchemeSupported that also lets scheme 1 (BasisLZ) through
SchemeSupportedUpTo2(s) == s = 0 \/ s = 1 \/ s = 2

SchemeSupported(s) == s = 0 \/ s = 2

\* Mismatch without the levelCount comparison
MismatchNoLevelCount(hi) ==
    \/ hi.pixelWidth # w
    \/ hi.pixelHeight # h
    \/ hi.vkFormat # 0
    \/ hi.supercompressionScheme # scheme

\* Mismatch without the pixelHeight comparison
MismatchNoHeight(hi) ==
    \/ hi.pixelWidth # w
    \/ hi.levelCount # lvls
    \/ hi.vkFormat # 0
    \/ hi.supercompressionScheme # scheme

\* Mismatch without the vkFormat test
MismatchNoVkFormat(hi) ==
    \/ hi.pixelWidth # w
    \/ hi.pixelHeight # h
    \/ hi.levelCount # lvls
    \/ hi.supercompressionScheme # scheme

\* the condition of the if statement in the compatibility loop
Mismatch(hi) ==
    \/ hi.pixelWidth # w
    \/ hi.pixelHeight # h
    \/ hi.levelCount # lvls
    \/ hi.vkFormat # 0
    \/ hi.supercompressionScheme # scheme

(***************************************************************************)
(* Typed-array views.  A part is a view of the level payload of one input: *)
(* bytes.subarray(0, exact) under NONE, the payload itself under ZSTD.  It *)
(* shares the input's storage; its bytes are read when it is copied.       *)
(***************************************************************************)
LevelData(ly, lv) == containers[ly + 1].levels[lv + 1].levelData[1]

View(ly, lv, len) == [layer |-> ly, level |-> lv, byteLength |-> len]

ViewBytes(p) == SubSeq(LevelData(p.layer, p.level), 1, p.byteLength)

\* TooSmall that also rejects a payload of exactly the UASTC size
TooSmallOrEqual(byteLength, exact) == byteLength <= exact

\* bytes.byteLength < exact
TooSmall(byteLength, exact) == byteLength < exact

\* PartFor without the trim to the exact UASTC size
PartUntrimmed(s, ly, lv, byteLength, exact) == View(ly, lv, byteLength)

\* the part pushed for one layer
PartFor(s, ly, lv, byteLength, exact) ==
    IF s = 0 THEN View(ly, lv, exact) ELSE View(ly, lv, byteLength)

\* UncOf written with || instead of ??: a declared 0 falls back too
UncOrFallback(lvl, lv) ==
    IF lvl.uncompressedByteLength = << >> \/ lvl.uncompressedByteLength = << 0 >>
    THEN uastcBytesPerImageAtLevel(w, h, lv)
    ELSE lvl.uncompressedByteLength[1]

\* lvl.uncompressedByteLength ?? uastcBytesPerImageAtLevel(level)
UncOf(lvl, lv) ==
    IF lvl.uncompressedByteLength = << >>
    THEN uastcBytesPerImageAtLevel(w, h, lv)
    ELSE lvl.uncompressedByteLength[1]

\* the ArrayBuffer behind the level payload of an input
InputBuffer(ly, lv) == [owner |-> "input", layer |-> ly, level |-> lv]

\* MergedBuffer that hands out the buffer of a lone part instead of a copy
ReuseLonePartBuffer(ps, lv) ==
    IF Len(ps) = 1 THEN InputBuffer(ps[1].layer, ps[1].level)
    ELSE [owner |-> "merged", layer |-> -1, level |-> lv]

\* the ArrayBuffer of new Uint8Array(totalLen): allocated by the call
MergedBuffer(ps, lv) == [owner |-> "merged", layer |-> -1, level |-> lv]

RECURSIVE TotalLen(_)
TotalLen(ps) ==
    IF ps = << >> THEN 0 ELSE Head(ps).byteLength + TotalLen(Tail(ps))

\* MergedBytes that writes the parts back to front
RECURSIVE MergedBytesReversed(_)
MergedBytesReversed(ps) ==
    IF ps = << >> THEN << >>
    ELSE MergedBytesReversed(Tail(ps)) \o ViewBytes(Head(ps))

\* new Uint8Array(totalLen) filled by merged.set(p, off) for each part
RECURSIVE MergedBytes(_)
MergedBytes(ps) ==
    IF ps = << >> THEN << >> ELSE ViewBytes(Head(ps)) \o MergedBytes(Tail(ps))

\* TypeSizeOrOne that writes 1 whatever the input says
TypeSizeAlwaysOne(t) == 1

\* H.typeSize || 1
TypeSizeOrOne(t) == IF t = 0 THEN 1 ELSE t

\* H.keyValue || {}
KeyValueOrEmpty(kv) == IF kv = << >> THEN << "{}" >> ELSE kv

OutContainer ==
    [vkFormat |-> 0,
     typeSize |-> TypeSizeOrOne(H.typeSize),
     pixelWidth |-> w,
     pixelHeight |-> h,
     pixelDepth |-> 0,
     layerCount |-> layerCount,
     faceCount |-> 1,
     levelCount |-> lvls,
     supercompressionScheme |-> scheme,
     dataFormatDescriptor |-> H.dataFormatDescriptor,
     keyValue |-> KeyValueOrEmpty(H.keyValue),
     globalData |-> << >>,
     levels |-> mergedLevels]

(***************************************************************************)
(* The decoded input containers the merge is run on.                       *)
(***************************************************************************)
\* payload bytes of input k (0-based), level lv, of the given length
Payload(k, lv, len) == [b \in 1..len |-> (97 * k + 31 * lv + b * b) % 256]

Level(k, lv, len, unc) ==
    [levelData |-> << Payload(k, lv, len) >>, uncompressedByteLength |-> unc]

BaseHeader(pw, ph, lc, s) ==
    [vkFormat |-> 0, typeSize |-> 1, pixelWidth |-> pw, pixelHeight |-> ph,
     pixelDepth |-> 0, layerCount |-> 0, faceCount |-> 1, levelCount |-> lc,
     supercompressionScheme |-> s,
     dataFormatDescriptor |-> << <<2, 7>> >>,
     keyValue |-> << "KTXwriter" >>,
     levels |-> << >>]

BaseHeaders ==
    { BaseHeader(pw, ph, lc, s) :
        pw \in Widths, ph \in Heights, lc \in 1..MaxLevels, s \in {0, 2} }

\* a header that differs from b in at most one field
HeaderVariants(b) ==
    {b}
    \cup { [b EXCEPT !.pixelWidth = v] : v \in Widths \ {b.pixelWidth} }
    \cup { [b EXCEPT !.pixelHeight = v] : v \in Heights \ {b.pixelHeight} }
    \cup { [b EXCEPT !.levelCount = v] : v \in (1..MaxLevels) \ {b.levelCount} }
    \cup { [b EXCEPT !.vkFormat = 1] }
    \cup { [b EXCEPT !.supercompressionScheme = v] :
             v \in {0, 1, 2} \ {b.supercompressionScheme} }
    \cup { [b EXCEPT !.typeSize = v] : v \in {0, 2} }
    \cup { [b EXCEPT !.faceCount = 6] }
    \cup { [b EXCEPT !.pixelDepth = v] : v \in {1, 2} }
    \cup { [b EXCEPT !.dataFormatDescriptor = v] : v \in { << >>, << <<2, 8>> >> } }
    \cup { [b EXCEPT !.keyValue = << >>] }

\* a well-formed container: every level present with exactly the UASTC size
\* plus pad trailing bytes
WithLevels(hd, k, pad, unc) ==
    [hd EXCEPT !.levels =
        [lv1 \in 1..hd.levelCount |->
            Level(k, lv1 - 1,
                  uastcBytesPerImageAtLevel(hd.pixelWidth, hd.pixelHeight, lv1 - 1) + pad,
                  unc)]]

\* a defect of one level of a container: payload one byte short, payload
\* null, or level record and all later ones absent
Defects == {"short", "null", "absent"}

WithDefect(c, lv, d) ==
    IF d = "short"
    THEN [c EXCEPT !.levels[lv + 1].levelData =
             << SubSeq(@[1], 1, uastcBytesPerImageAtLevel(c.pixelWidth, c.pixelHeight, lv) - 1) >>]
    ELSE IF d = "null"
    THEN [c EXCEPT !.levels[lv + 1].levelData = << >>]
    ELSE [c EXCEPT !.levels = SubSeq(@, 1, lv)]

\* inputs whose headers vary around a 4x4 base, payloads exact
HeaderInputs(cs) ==
    \E n \in 0..MaxInputs,
       b \in { bh \in BaseHeaders : bh.pixelWidth = 4 /\ bh.pixelHeight = 4 } :
        \E hs \in [1..n -> HeaderVariants(b)] :
            cs = [k \in 1..n |-> WithLevels(hs[k], k - 1, 0, << >>)]

\* inputs with one common valid header whose payloads vary
PayloadInputs(cs) ==
    \E n \in 1..MaxInputs, b \in BaseHeaders :
        \E pads \in [1..n -> {0, MaxPad}],
           uncs \in [1..n -> { << >>, << 0 >>, << 20 >> }] :
            cs = [k \in 1..n |-> WithLevels(b, k - 1, pads[k], uncs[k])]

\* the same with a defect in one level of one input
DefectiveInputs(cs) ==
    \E n \in 1..MaxInputs, b \in BaseHeaders :
        \E pad \in {0, MaxPad}, unc \in { << >>, << 0 >>, << 20 >> },
           k0 \in 1..n, lv \in 0..(b.levelCount - 1), d \in Defects :
            cs = [k \in 1..n |->
                    IF k = k0
                    THEN WithDefect(WithLevels(b, k - 1, pad, unc), lv, d)
                    ELSE WithLevels(b, k - 1, pad, unc)]

\* exact inputs with one common valid header and defects in two levels
TwoDefectInputs(cs) ==
    \E n \in 1..MaxInputs,
       b \in { bh \in BaseHeaders : bh.pixelWidth = 5 /\ bh.pixelHeight = 4 } :
        \E k0 \in 1..n, k1 \in 1..n,
           lv0 \in 0..(b.levelCount - 1), lv1 \in 0..(b.levelCount - 1),
           d0 \in Defects, d1 \in Defects :
            /\ << k0, lv0 >> # << k1, lv1 >>
            /\ k0 = k1 => (d0 # "absent" /\ d1 # "absent")
            /\ cs = [k \in 1..n |->
                    LET c0 == WithLevels(b, k - 1, 0, << >>)
                        c1 == IF k = k0 THEN WithDefect(c0, lv0, d0) ELSE c0
                    IN  IF k = k1 THEN WithDefect(c1, lv1, d1) ELSE c1]

Init ==
    /\ \/ HeaderInputs(containers)
       \/ PayloadInputs(containers)
       \/ DefectiveInputs(containers)
       \/ TwoDefectInputs(containers)
    /\ pc = "header"
    /\ i = 0
    /\ level = 0
    /\ layer = 0
    /\ parts = << >>
    /\ totalUnc = 0
    /\ mergedLevels = << >>
    /\ out = << >>
    /\ warned = {}
    /\ written = << >>
    /\ err = NoError

\* one ZSTD input of SizeLevels levels that declares no logical size, so
\* that the size function is applied at every level
SizeLevels == 33
SizeDims == {1, 5, 8, 64}

SizeInputs(cs) ==
    \E pw \in SizeDims, ph \in SizeDims :
        cs = << [BaseHeader(pw, ph, SizeLevels, 2) EXCEPT !.levels =
                   [lv1 \in 1..SizeLevels |-> Level(0, lv1 - 1, 1, << >>)]] >>

InitSize ==
    /\ SizeInputs(containers)
    /\ pc = "header"
    /\ i = 0
    /\ level = 0
    /\ layer = 0
    /\ parts = << >>
    /\ totalUnc = 0
    /\ mergedLevels = << >>
    /\ out = << >>
    /\ warned = {}
    /\ written = << >>
    /\ err = NoError

(***************************************************************************)
(* throw: the call ends with an exception, nothing is returned.            *)
(***************************************************************************)
Throw(e) ==
    /\ pc' = "failed"
    /\ err' = e

\* lines 13-21: read the reference header, check vkFormat and scheme
Header ==
    /\ pc = "header"
    /\ IF Len(containers) = 0
       THEN Throw(Error(TypeErrorMsg)) /\ UNCHANGED i
       ELSE IF H.vkFormat # 0
       THEN Throw(Error(VkFormatMsg)) /\ UNCHANGED i
       ELSE IF ~SchemeSupported(scheme)
       THEN Throw(Error(SchemeMsg)) /\ UNCHANGED i
       ELSE /\ pc' = "validate"
            /\ i' = 1
            /\ UNCHANGED err
    /\ UNCHANGED << containers, level, layer, parts, totalUnc, mergedLevels,
                    out, warned, written >>

\* lines 24-38: one iteration of the compatibility loop, or its exit
Validate ==
    /\ pc = "validate"
    /\ IF i < Len(containers)
       THEN IF Mismatch(containers[i + 1])
            THEN Throw(Error(IncompatibleMsg))
                 /\ UNCHANGED << i, mergedLevels, level >>
            ELSE /\ i' = i + 1
                 /\ UNCHANGED << pc, err, mergedLevels, level >>
       ELSE /\ mergedLevels' = [k \in 1..lvls |-> << >>]
            /\ level' = 0
            /\ pc' = "level"
            /\ UNCHANGED << i, err >>
    /\ UNCHANGED << containers, layer, parts, totalUnc, out, warned, written >>

\* lines 49-51: head of the level loop
LevelLoop ==
    /\ pc = "level"
    /\ IF level < lvls
       THEN /\ parts' = << >>
            /\ totalUnc' = 0
            /\ layer' = 0
            /\ pc' = "layer"
       ELSE /\ pc' = "build"
            /\ UNCHANGED << parts, totalUnc, layer >>
    /\ UNCHANGED << containers, i, level, mergedLevels, out, warned, written, err >>

\* lines 53-72: one iteration of the layer loop, or its exit
LayerLoop ==
    /\ pc = "layer"
    /\ IF layer < layerCount
       THEN LET src == containers[layer + 1]
            IN  IF level + 1 > Len(src.levels)
                THEN \* lvl is undefined, lvl.levelData throws
                     Throw(Error(TypeErrorMsg))
                     /\ UNCHANGED << parts, totalUnc, layer >>
                ELSE LET lvl == src.levels[level + 1]
                         bytes == lvl.levelData
                         exact == uastcBytesPerImageAtLevel(w, h, level)
                     IN  IF bytes = << >>
                         THEN Throw([Error(MissingLevelDataMsg) EXCEPT
                                       !.layer = layer, !.level = level])
                              /\ UNCHANGED << parts, totalUnc, layer >>
                         ELSE IF scheme = 0 /\ TooSmall(Len(bytes[1]), exact)
                         THEN Throw([Error(TooSmallMsg) EXCEPT
                                       !.layer = layer, !.level = level,
                                       !.got = Len(bytes[1]), !.expected = exact])
                              /\ UNCHANGED << parts, totalUnc, layer >>
                         ELSE /\ parts' = Append(parts,
                                     PartFor(scheme, layer, level, Len(bytes[1]), exact))
                              /\ totalUnc' = IF scheme = 0 THEN totalUnc
                                             ELSE totalUnc + UncOf(lvl, level)
                              /\ layer' = layer + 1
                              /\ UNCHANGED << pc, err >>
       ELSE /\ pc' = "concat"
            /\ UNCHANGED << parts, totalUnc, layer, err >>
    /\ UNCHANGED << containers, i, level, mergedLevels, out, warned, written >>

\* lines 74-91: concatenate the parts into a new buffer, store the level
Concat ==
    /\ pc = "concat"
    /\ LET totalLen == TotalLen(parts)
           merged == MergedBytes(parts)
       IN  mergedLevels' = [mergedLevels EXCEPT ![level + 1] =
               << [levelData |-> merged,
                   buffer |-> MergedBuffer(parts, level),
                   uncompressedByteLength |->
                       IF scheme = 0 THEN totalLen ELSE totalUnc] >>]
    /\ level' = level + 1
    /\ pc' = "level"
    /\ UNCHANGED << containers, i, layer, parts, totalUnc, out, warned, written, err >>

\* lines 93-108: build the output container
Build ==
    /\ pc = "build"
    /\ out' = << OutContainer >>
    /\ pc' = "sanity"
    /\ UNCHANGED << containers, i, level, layer, parts, totalUnc, mergedLevels,
                    warned, written, err >>

\* lines 110-118: console.warn for every NONE level of unexpected size
Sanity ==
    /\ pc = "sanity"
    /\ warned' = IF scheme = 0
                 THEN { lv \in 0..(lvls - 1) :
                          Len(out[1].levels[lv + 1][1].levelData)
                            # layerCount * uastcBytesPerImageAtLevel(w, h, lv) }
                 ELSE {}
    /\ pc' = "write"
    /\ UNCHANGED << containers, i, level, layer, parts, totalUnc, mergedLevels,
                    out, written, err >>

\* lines 120-121: hand the container to the encoder and return
Write ==
    /\ pc = "write"
    /\ written' = out
    /\ pc' = "done"
    /\ UNCHANGED << containers, i, level, layer, parts, totalUnc, mergedLevels,
                    out, warned, err >>

Next ==
    \/ Header
    \/ Validate
    \/ LevelLoop
    \/ LayerLoop
    \/ Concat
    \/ Build
    \/ Sanity
    \/ Write

Spec == Init /\ [][Next]_vars

SpecSize == InitSize /\ [][Next]_vars

TypeOK ==
    /\ pc \in {"header", "validate", "level", "layer", "concat", "build",
               "sanity", "write", "done", "failed"}
    /\ (pc = "failed") = (err # NoError)
    /\ (pc = "done") = (written # << >>)

(***************************************************************************)
(* Properties.                                                             *)
(***************************************************************************)
N == Len(containers)
Inputs == 1..N
Succeeded == pc = "done"
Failed == pc = "failed"

\* the size function as the specification states it
BlockAlignedSize(pw, ph, lv) ==
    LET wL == MathMax(1, pw \div (2 ^ lv))
        hL == MathMax(1, ph \div (2 ^ lv))
    IN  ((wL + 3) \div 4) * ((hL + 3) \div 4) * 16

InputPayload(k, lv) == containers[k].levels[lv + 1].levelData[1]
OutLevel(lv) == written[1].levels[lv + 1][1]

\* C1: on every successful merge of N >= 1 inputs the output has
\* layerCount = N, faceCount = 1, pixelDepth = 0, the pixelWidth,
\* pixelHeight and levelCount of every input, and exactly levelCount level
\* records.
C1_OutputShape ==
    Succeeded =>
        LET o == written[1]
        IN  /\ N >= 1
            /\ o.layerCount = N
            /\ o.faceCount = 1
            /\ o.pixelDepth = 0
            /\ \A k \in Inputs :
                  /\ o.pixelWidth = containers[k].pixelWidth
                  /\ o.pixelHeight = containers[k].pixelHeight
                  /\ o.levelCount = containers[k].levelCount
            /\ Len(o.levels) = o.levelCount
            /\ \A lv1 \in 1..Len(o.levels) : o.levels[lv1] # << >>

C1_Witness ==
    /\ Succeeded
    /\ N = 2
    /\ written[1].levelCount = 2

\* C2: under scheme NONE every merged level has byte length and recorded
\* uncompressedByteLength N * blockAlignedSize(width, height, L), whatever
\* trailing padding the inputs carried.
C2_NoneLevelSize ==
    (Succeeded /\ scheme = 0) =>
        \A lv \in 0..(lvls - 1) :
            /\ Len(OutLevel(lv).levelData) = N * BlockAlignedSize(w, h, lv)
            /\ OutLevel(lv).uncompressedByteLength = N * BlockAlignedSize(w, h, lv)

C2_Witness ==
    /\ Succeeded
    /\ scheme = 0
    /\ N = 2
    /\ lvls = 2
    /\ Len(InputPayload(2, 1)) > BlockAlignedSize(w, h, 1)

\* C3: under scheme NONE, bytes [i*S, (i+1)*S) of merged level L are the
\* first S bytes of input i's level-L payload, S = blockAlignedSize(width,
\* height, L): input order is kept and nothing lies between the layers.
C3_LayerOrderTight ==
    (Succeeded /\ scheme = 0) =>
        \A lv \in 0..(lvls - 1) :
            LET S == BlockAlignedSize(w, h, lv)
            IN  \A k \in Inputs :
                    SubSeq(OutLevel(lv).levelData, (k - 1) * S + 1, k * S)
                      = SubSeq(InputPayload(k, lv), 1, S)

C3_Witness ==
    /\ Succeeded
    /\ scheme = 0
    /\ N = 2
    /\ Len(InputPayload(1, 0)) > BlockAlignedSize(w, h, 0)
    /\ SubSeq(InputPayload(1, 0), 1, 16) # SubSeq(InputPayload(2, 0), 1, 16)

RECURSIVE VerbatimConcat(_, _)
VerbatimConcat(k, lv) ==
    IF k > N THEN << >> ELSE InputPayload(k, lv) \o VerbatimConcat(k + 1, lv)

RECURSIVE LogicalSizeSum(_, _)
LogicalSizeSum(k, lv) ==
    IF k > N THEN 0
    ELSE LET d == containers[k].levels[lv + 1].uncompressedByteLength
         IN  (IF d = << >> THEN BlockAlignedSize(w, h, lv) ELSE d[1])
             + LogicalSizeSum(k + 1, lv)

\* C4: under scheme ZSTD every merged level is the verbatim concatenation,
\* in input order, of the inputs' untrimmed payloads, and its logical size
\* is the sum of the inputs' declared logical sizes, blockAlignedSize
\* standing in for each input that declares none.
C4_ZstdVerbatim ==
    (Succeeded /\ scheme = 2) =>
        \A lv \in 0..(lvls - 1) :
            /\ OutLevel(lv).levelData = VerbatimConcat(1, lv)
            /\ OutLevel(lv).uncompressedByteLength = LogicalSizeSum(1, lv)

C4_Witness ==
    /\ Succeeded
    /\ scheme = 2
    /\ N = 2
    /\ containers[1].levels[1].uncompressedByteLength = << >>
    /\ containers[2].levels[1].uncompressedByteLength = << 0 >>
    /\ Len(InputPayload(1, 0)) # BlockAlignedSize(w, h, 0)

(***************************************************************************)
(* Validation and failure.                                                 *)
(***************************************************************************)
\* the message of the empty-list guard of the earlier draft of the function
NoInputsMsg == "Provide at least one KTX2 buffer."

Terminated == pc \in {"done", "failed"}
NoOutput == out = << >> /\ written = << >>

\* some payload byte has been copied into a merged buffer
Copied ==
    \E lv1 \in 1..Len(mergedLevels) :
        mergedLevels[lv1] # << >> /\ Len(mergedLevels[lv1][1].levelData) > 0

\* every header check of the function passes on the inputs
HeadersPass ==
    /\ N >= 1
    /\ containers[1].vkFormat = 0
    /\ containers[1].supercompressionScheme \in {0, 2}
    /\ \A k \in 2..N :
          /\ containers[k].pixelWidth = containers[1].pixelWidth
          /\ containers[k].pixelHeight = containers[1].pixelHeight
          /\ containers[k].levelCount = containers[1].levelCount
          /\ containers[k].vkFormat = 0
          /\ containers[k].supercompressionScheme = containers[1].supercompressionScheme

\* the payload checks of the level loop pass for input k, level lv
PayloadPasses(k, lv) ==
    /\ lv + 1 <= Len(containers[k].levels)
    /\ containers[k].levels[lv + 1].levelData # << >>
    /\ containers[1].supercompressionScheme = 0 =>
          Len(InputPayload(k, lv))
            >= BlockAlignedSize(containers[1].pixelWidth, containers[1].pixelHeight, lv)

\* C5 as stated: once a payload byte has been copied every validation check
\* has passed (none can fail afterwards), and a failed merge returns nothing.
C5_AllChecksBeforeAnyCopy ==
    /\ Copied => /\ HeadersPass
                 /\ \A k \in Inputs : \A lv \in 0..(lvls - 1) : PayloadPasses(k, lv)
    /\ Failed => NoOutput

\* C5 amended: the header checks pass before any byte is copied; the
\* payload checks of a level pass for every input before that level is
\* copied (those of later levels run after it); a failure ends the run and
\* no container, complete or partial, is returned.
C5_ChecksBeforeCopyPerLevel ==
    /\ Copied => HeadersPass
    /\ \A lv1 \in 1..Len(mergedLevels) :
          mergedLevels[lv1] # << >> => \A k \in Inputs : PayloadPasses(k, lv1 - 1)
    /\ Failed => NoOutput /\ ~ENABLED Next
    /\ written # << >> => Succeeded

C5_Witness ==
    /\ Failed
    /\ Copied
    /\ err.level = 1

\* C6: a list in which some input i >= 1 differs from input 0 in pixelWidth,
\* pixelHeight, levelCount, vkFormat, supercompressionScheme or typeSize is
\* never merged.
C6_RejectsEveryDifference ==
    (\E k \in 2..N :
        \/ containers[k].pixelWidth # containers[1].pixelWidth
        \/ containers[k].pixelHeight # containers[1].pixelHeight
        \/ containers[k].levelCount # containers[1].levelCount
        \/ containers[k].vkFormat # containers[1].vkFormat
        \/ containers[k].supercompressionScheme # containers[1].supercompressionScheme
        \/ containers[k].typeSize # containers[1].typeSize)
    => (~Succeeded /\ written = << >>)

\* the error of a run that fails in the header checks
HeaderErrorMsg ==
    IF containers[1].vkFormat # 0 THEN VkFormatMsg
    ELSE IF containers[1].supercompressionScheme \notin {0, 2} THEN SchemeMsg
    ELSE IncompatibleMsg

SomeBadVkFormat == \E k \in Inputs : containers[k].vkFormat # 0

\* C7 as stated: an input with vkFormat # 0 at any index makes the merge
\* end with the vkFormat error and no output.
C7_AlwaysVkFormatError ==
    (SomeBadVkFormat /\ Terminated) =>
        (Failed /\ err.msg = VkFormatMsg /\ NoOutput)

\* C7 amended: an input with vkFormat # 0 at any index stops the merge in
\* its header checks with no output; the error is the vkFormat error exactly
\* when input 0 is such an input, else the unsupported-scheme error of
\* input 0 or the all-inputs-must-match error.
C7_BadVkFormatFails ==
    SomeBadVkFormat =>
        /\ pc \in {"header", "validate", "failed"}
        /\ NoOutput
        /\ ~Copied
        /\ ~ENABLED Next => Failed
        /\ Failed => err.msg = HeaderErrorMsg

C7_Witness ==
    /\ Failed
    /\ N = 2
    /\ containers[1].vkFormat = 0
    /\ containers[2].vkFormat # 0
    /\ err.msg = IncompatibleMsg

SomeBadScheme ==
    \E k \in Inputs : containers[k].supercompressionScheme \notin {0, 2}

\* C8 as stated: an input with a scheme outside {0, 2} makes the merge end
\* with the unsupported-scheme error and no output.
C8_AlwaysSchemeError ==
    (SomeBadScheme /\ Terminated) =>
        (Failed /\ err.msg = SchemeMsg /\ NoOutput)

\* C8 amended: an input with a scheme outside {0, 2} stops the merge in its
\* header checks with no output; the error is the unsupported-scheme error
\* exactly when input 0 has vkFormat 0 and such a scheme, else the vkFormat
\* error of input 0 or the all-inputs-must-match error.
C8_BadSchemeFails ==
    SomeBadScheme =>
        /\ pc \in {"header", "validate", "failed"}
        /\ NoOutput
        /\ mergedLevels = << >>
        /\ ~ENABLED Next => Failed
        /\ Failed => /\ err.msg = HeaderErrorMsg
                     /\ (err.msg = SchemeMsg) =
                          (/\ containers[1].vkFormat = 0
                           /\ containers[1].supercompressionScheme \notin {0, 2})

C8_Witness ==
    /\ Failed
    /\ N = 2
    /\ containers[1].supercompressionScheme = 2
    /\ containers[2].supercompressionScheme = 1
    /\ err.msg = IncompatibleMsg

\* C9: an empty input list is rejected with the no-inputs error.
C9_EmptyListRejectedByGuard ==
    (N = 0 /\ Terminated) => (Failed /\ err.msg = NoInputsMsg /\ NoOutput)

\* C10: a list with an input whose faceCount is not 1 or whose pixelDepth is
\* outside {0, 1} is never merged.
C10_RejectsCubeAnd3D ==
    (\E k \in Inputs :
        containers[k].faceCount # 1 \/ containers[k].pixelDepth \notin {0, 1})
    => (~Succeeded /\ written = << >>)

(***************************************************************************)
(* Descriptor, payload errors, frame, copied fields, size function.        *)
(***************************************************************************)
\* C11: a list in which some input's dataFormatDescriptor is not byte for
\* byte that of input 0 (one of the two absent included) is never merged, so
\* the descriptor of a returned container is that of every input.
C11_RejectsDescriptorMismatch ==
    /\ (\E k \in 2..N :
           containers[k].dataFormatDescriptor # containers[1].dataFormatDescriptor)
       => (~Succeeded /\ written = << >>)
    /\ Succeeded =>
          \A k \in Inputs :
              written[1].dataFormatDescriptor = containers[k].dataFormatDescriptor

\* the level loop visits (lv1, k1) before (lv, k)
Before(k1, lv1, k, lv) == lv1 < lv \/ (lv1 = lv /\ k1 < k)

\* (k, lv) is the first payload, in the order of the level loop, that does
\* not pass its checks
FirstFailing(k, lv) ==
    /\ ~PayloadPasses(k, lv)
    /\ \A k1 \in Inputs : \A lv1 \in 0..(lvls - 1) :
          Before(k1, lv1, k, lv) => PayloadPasses(k1, lv1)

HasPayload(k, lv) ==
    /\ lv + 1 <= Len(containers[k].levels)
    /\ containers[k].levels[lv + 1].levelData # << >>

IsShort(k, lv) ==
    /\ HasPayload(k, lv)
    /\ scheme = 0
    /\ Len(InputPayload(k, lv)) < BlockAlignedSize(w, h, lv)

\* C12: under scheme NONE a payload shorter than blockAlignedSize(width,
\* height, L) makes the merge fail without output; the error is the
\* too-small error naming the input, the level, the actual and the expected
\* byte count of the first such payload the level loop meets; a payload of
\* at least that size is never rejected for its length.
C12_TruncatedPayloadNamed ==
    /\ HeadersPass =>
          \A k \in Inputs : \A lv \in 0..(lvls - 1) :
              /\ IsShort(k, lv) => (~Succeeded /\ written = << >>)
              /\ (IsShort(k, lv) /\ FirstFailing(k, lv)) =>
                    /\ ~ENABLED Next => Failed
                    /\ Failed =>
                          err = [msg |-> TooSmallMsg, layer |-> k - 1, level |-> lv,
                                 got |-> Len(InputPayload(k, lv)),
                                 expected |-> BlockAlignedSize(w, h, lv)]
    /\ (Failed /\ err.msg = TooSmallMsg) =>
          /\ HeadersPass
          /\ IsShort(err.layer + 1, err.level)

C12_Witness ==
    /\ Failed
    /\ err.msg = TooSmallMsg
    /\ err.layer = 1
    /\ err.level = 1
    /\ \E k \in Inputs : HasPayload(k, 0) /\ Len(InputPayload(k, 0)) = BlockAlignedSize(w, h, 0)

IsMissing(k, lv) == ~HasPayload(k, lv)

\* C13: a missing payload (level record absent or levelData absent) makes
\* the merge fail, under either scheme, without output and with the
\* missing-levelData error naming the input and the level.
C13_MissingPayloadNamed ==
    HeadersPass =>
        \A k \in Inputs : \A lv \in 0..(lvls - 1) :
            (IsMissing(k, lv) /\ FirstFailing(k, lv)) =>
                /\ ~Succeeded
                /\ written = << >>
                /\ Failed =>
                      /\ err.msg = MissingLevelDataMsg
                      /\ err.layer = k - 1
                      /\ err.level = lv

\* no level payload among ls (a sequence of optional level records) lives in
\* the buffer of an input payload
FreshBuffers(ls) ==
    \A lv1 \in 1..Len(ls) :
        ls[lv1] # << >> =>
            \A k \in Inputs : \A lv \in 0..(containers[k].levelCount - 1) :
                ls[lv1][1].buffer # InputBuffer(k - 1, lv)

\* C14: no step of the merge, in a successful or a failed run, changes an
\* input container (header fields, level list, payload bytes), and every
\* merged level payload lives in a buffer allocated by the call, never in
\* the buffer of an input payload.
C14_InputsUntouched ==
    [][ /\ containers' = containers
        /\ FreshBuffers(mergedLevels')
        /\ written' # << >> => FreshBuffers(written'[1].levels) ]_vars

C14_Witness ==
    /\ Succeeded
    /\ N = 1
    /\ scheme = 2
    /\ Len(parts) = 1
    /\ written[1].levels[1][1].levelData = InputPayload(1, 0)

\* C15 as stated: a returned container has the typeSize, the
\* dataFormatDescriptor and the keyValue of input 0, whatever their values,
\* and a null globalData.
C15_CopiedVerbatim ==
    Succeeded =>
        /\ written[1].typeSize = containers[1].typeSize
        /\ written[1].dataFormatDescriptor = containers[1].dataFormatDescriptor
        /\ written[1].keyValue = containers[1].keyValue
        /\ written[1].globalData = << >>

\* C15 amended: a returned container has the dataFormatDescriptor of input
\* 0, its typeSize except that 0 becomes 1, its keyValue except that an
\* absent one becomes an empty mapping, and a null globalData.
C15_CopiedWithDefaults ==
    Succeeded =>
        /\ written[1].typeSize =
              (IF containers[1].typeSize = 0 THEN 1 ELSE containers[1].typeSize)
        /\ written[1].dataFormatDescriptor = containers[1].dataFormatDescriptor
        /\ written[1].keyValue =
              (IF containers[1].keyValue = << >> THEN << "{}" >>
               ELSE containers[1].keyValue)
        /\ written[1].globalData = << >>

C15_Witness ==
    /\ Succeeded
    /\ containers[1].typeSize = 0
    /\ written[1].typeSize = 1
    /\ N = 2

\* floor(x / 2^n) for 0 <= x < 2^31
FloorDivPow2(x, n) == IF n >= 31 THEN 0 ELSE x \div (2 ^ n)

\* ceil(max(1, floor(width / 2^level)) / 4)
\*   * ceil(max(1, floor(height / 2^level)) / 4) * 16
MipBlockBytes(pw, ph, lv) ==
    LET wL == MathMax(1, FloorDivPow2(pw, lv))
        hL == MathMax(1, FloorDivPow2(ph, lv))
    IN  ((wL + 3) \div 4) * ((hL + 3) \div 4) * 16

\* the run applies the size function to every level: one ZSTD input that
\* declares no logical size
SizeRun ==
    /\ N = 1
    /\ scheme = 2
    /\ \A lv1 \in 1..Len(containers[1].levels) :
          containers[1].levels[lv1].uncompressedByteLength = << >>

\* C16: the size computed for level L is ceil(max(1, floor(width / 2^L)) / 4)
\* * ceil(max(1, floor(height / 2^L)) / 4) * 16 at every level, also from
\* level 32 on; it is at least 16 and never grows from one level to the next.
C16_SizeFormulaAllLevels ==
    SizeRun =>
        \A lv1 \in 1..Len(mergedLevels) :
            mergedLevels[lv1] # << >> =>
                LET s == mergedLevels[lv1][1].uncompressedByteLength
                IN  /\ s = MipBlockBytes(w, h, lv1 - 1)
                    /\ s >= 16
                    /\ lv1 > 1 => s <= mergedLevels[lv1 - 1][1].uncompressedByteLength
====
